---- MODULE Spec2Model ----
(***************************************************************************)
(* Event routing and delivery subsystem of happy-server: the connection    *)
(* registry (EventRouter.userConnections), the recipient filter            *)
(* (shouldSendToConnection) and the emission loop (emit).                  *)
(*                                                                         *)
(* emit() is synchronous, so the only place where other router calls can   *)
(* run while an emission is in progress is inside the call                 *)
(* connection.socket.emit(...) of the loop body: the channel is external   *)
(* code and may call back into addConnection / removeConnection.  The      *)
(* model therefore splits emit() at that call: pc = "send" is the control  *)
(* state "inside socket.emit".                                             *)
(*                                                                         *)
(* Spec is the router called from the event loop, one call after the       *)
(* other.  SpecReentrant adds the registry calls made from inside          *)
(* socket.emit, the interleaving of connect/disconnect with an emission.   *)
(***************************************************************************)
EXTENDS Integers, Sequences, FiniteSets, TLC

\* ---------------------------------------------------------------- bounds
\* Largest number of (userId, connection) registrations held at once.
MaxRegistered == 3
\* Largest number of registry calls made from inside the socket.emit calls
\* of one emission.
MaxReentrant == 2
\* Largest sequence or version number a payload builder is given.
MaxSeq == 2

\* ---------------------------------------------------------------- inputs
Users == {"u1", "u2"}
SessionIds == {"s1", "s2"}

\* JavaScript's undefined: a Map.get miss, an omitted optional parameter.
undefined == "undefined"

\* The connection objects (compared by identity, here by name).
ClientConnection == {"A", "B", "C", "D"}

connectionType ==
    [c \in ClientConnection |->
        CASE c = "A" -> "session-scoped"
          [] c = "B" -> "session-scoped"
          [] c = "C" -> "user-scoped"
          [] c = "D" -> "machine-scoped"]

sessionId ==
    [c \in ClientConnection |->
        CASE c = "A" -> "s1"
          [] c = "B" -> "s2"
          [] OTHER -> undefined]

\* The three RecipientFilter variants, and one value outside the type that
\* an untyped caller can still pass at run time.
RecipientFilter ==
    [type : {"all-interested-in-session"}, sessionId : SessionIds]
    \cup [type : {"user-scoped-only", "all-user-authenticated-connections"},
          sessionId : {undefined}]

UnrecognizedFilter == [type |-> "unrecognized", sessionId |-> undefined]

\* recipientFilter omitted by the caller.
NoFilter == [type |-> undefined, sessionId |-> undefined]

FilterArgs == RecipientFilter \cup {UnrecognizedFilter, NoFilter}

DefaultFilter ==
    [type |-> "all-user-authenticated-connections", sessionId |-> undefined]

\* The payloads a caller passes: an UpdatePayload envelope to emitUpdate, an
\* EphemeralPayload to emitEphemeral.
UpdatePayload ==
    {[id |-> "upd1", seq |-> 7, body |-> [t |-> "new-message"], createdAt |-> 1]}

EphemeralPayload == {[type |-> "activity", id |-> "sess1", active |-> TRUE]}

\* lastCall when there is no such call.
NoCall ==
    [op |-> undefined, userId |-> undefined, connection |-> undefined,
     present |-> FALSE]

NoParams ==
    [userId |-> undefined, eventName |-> undefined,
     payload |-> [type |-> undefined],
     recipientFilter |-> NoFilter, skipSenderConnection |-> undefined]

\* ---------------------------------------------------------------- state
VARIABLES
    userConnections, \* Map<userId, Set<ClientConnection>>: a function whose
                     \* domain is the keys present; a Set is the sequence of
                     \* its elements in insertion order
    pc,              \* "idle" | "loop" | "send" | "done": position in emit()
    params,          \* the params object of the running emit()
    connections,     \* emit's local `connections`: the Set object it iterates
    aliased,         \* TRUE while that Set object is still the one stored in
                     \* userConnections under params.userId
    index,           \* the Set iterator: entries of `connections` passed
    wire,            \* the socket.emit calls made by the running emit()
    warned,          \* the running emit() logged "No connections found"
    thrown,          \* the last router call raised an exception
    given,           \* history: the recipientFilter argument as passed
    entry,           \* history: the public method that started the running
                     \* emit(), "emitUpdate" or "emitEphemeral"
    snapshot,        \* history: elements of `connections` when emit() began
    reentered,       \* history: registry calls made inside socket.emit
    lastAdd,         \* history: the <<userId, connection>> pairs whose most
                     \* recent addConnection/removeConnection call was an add
    lastCall,        \* history: the most recent registry call made while
                     \* no emission was running, kept until an emission
                     \* enters its loop
    afterDup,        \* history: the running emit() directly followed an
                     \* addConnection of an already registered connection
    built            \* the most recent payload-builder call: its name, its
                     \* arguments and the value it returned
                     \* under params.userId

vars == <<userConnections, pc, params, connections, aliased, index, wire,
          warned, thrown, given, entry, snapshot, reentered, lastAdd, lastCall,
          afterDup, built>>

\* The router's state, which no payload builder touches.
routerVars == <<userConnections, pc, params, connections, aliased, index, wire,
                warned, thrown, given, entry, snapshot, reentered, lastAdd,
                lastCall, afterDup>>

\* ---------------------------------------------------------------- helpers
Elems(s) == {s[i] : i \in 1..Len(s)}

IndexOf(s, c) == CHOOSE i \in 1..Len(s) : s[i] = c

\* Mutant: the element is deleted from a copy, the Set keeps it.
SetDeleteFromCopy(s, c) == s

\* Set.prototype.delete on the insertion-ordered element list.
SetDelete(s, c) == SelectSeq(s, LAMBDA x : x # c)

\* Mutant: an array push in place of Set.add.
SetAddPush(s, c) == Append(s, c)

\* Set.prototype.add: a new element goes last, a present one stays in place.
SetAdd(s, c) == IF c \in Elems(s) THEN s ELSE Append(s, c)

\* Mutant: clear() in place of delete(userId).
MapDeleteClears(m, k) == [x \in {} |-> <<>>]

\* Map.prototype.delete.
MapDelete(m, k) == [x \in (DOMAIN m) \ {k} |-> m[x]]

\* Map.prototype.set.
MapSet(m, k, v) == [x \in (DOMAIN m) \cup {k} |-> IF x = k THEN v ELSE m[x]]

Registered ==
    LET Sum[S \in SUBSET Users] ==
            IF S = {} THEN 0
            ELSE LET u == CHOOSE x \in S : TRUE
                 IN  (IF u \in DOMAIN userConnections
                      THEN Len(userConnections[u]) ELSE 0) + Sum[S \ {u}]
    IN  Sum[Users]

\* connection is registered under userId.
Has(userId, connection) ==
    /\ userId \in DOMAIN userConnections
    /\ connection \in Elems(userConnections[userId])

\* The result of getConnections for a userId without an entry.
NoConnections == [defined |-> FALSE, elements |-> {}]

\* getConnections(userId): the user's Set, or undefined.
getConnections(userId) ==
    IF userId \in DOMAIN userConnections
    THEN [defined |-> TRUE, elements |-> Elems(userConnections[userId])]
    ELSE NoConnections

\* ---------------------------------------------------------------- registry
addConnection(userId, connection) ==
    LET created == IF userId \in DOMAIN userConnections
                   THEN userConnections
                   ELSE MapSet(userConnections, userId, <<>>)
        added == SetAdd(created[userId], connection)
    IN  /\ userConnections' = MapSet(created, userId, added)
        /\ IF pc = "send" /\ aliased /\ userId = params.userId
           THEN connections' = added
           ELSE connections' = connections
        /\ thrown' = FALSE
        /\ UNCHANGED <<aliased, index>>

\* Mutant: the entry of a user whose set became empty is kept.
removeConnectionKeepsEntry(userId, connection) ==
    /\ IF userId \in DOMAIN userConnections
       THEN LET old == userConnections[userId]
                deleted == SetDelete(old, connection)
                iterated == pc = "send" /\ aliased /\ userId = params.userId
            IN  /\ userConnections' = MapSet(userConnections, userId, deleted)
                /\ IF iterated
                   THEN /\ connections' = deleted
                        /\ index' = IF connection \in Elems(old)
                                       /\ IndexOf(old, connection) <= index
                                    THEN index - 1 ELSE index
                        /\ aliased' = aliased
                   ELSE UNCHANGED <<connections, index, aliased>>
       ELSE UNCHANGED <<userConnections, connections, index, aliased>>
    /\ thrown' = FALSE

\* Mutant: no `if (connections)` guard, so delete is called on undefined.
removeConnectionUnguarded(userId, connection) ==
    /\ IF userId \in DOMAIN userConnections
       THEN LET old == userConnections[userId]
                deleted == SetDelete(old, connection)
                iterated == pc = "send" /\ aliased /\ userId = params.userId
            IN  /\ userConnections' =
                       IF Len(deleted) = 0
                       THEN MapDelete(userConnections, userId)
                       ELSE MapSet(userConnections, userId, deleted)
                /\ IF iterated
                   THEN /\ connections' = deleted
                        /\ index' = IF connection \in Elems(old)
                                       /\ IndexOf(old, connection) <= index
                                    THEN index - 1 ELSE index
                        /\ aliased' = (Len(deleted) # 0)
                   ELSE UNCHANGED <<connections, index, aliased>>
                /\ thrown' = FALSE
       ELSE /\ UNCHANGED <<userConnections, connections, index, aliased>>
            /\ thrown' = TRUE

removeConnection(userId, connection) ==
    /\ IF userId \in DOMAIN userConnections
       THEN LET old == userConnections[userId]
                deleted == SetDelete(old, connection)
                iterated == pc = "send" /\ aliased /\ userId = params.userId
            IN  /\ userConnections' =
                       IF Len(deleted) = 0
                       THEN MapDelete(userConnections, userId)
                       ELSE MapSet(userConnections, userId, deleted)
                /\ IF iterated
                   THEN /\ connections' = deleted
                        /\ index' = IF connection \in Elems(old)
                                       /\ IndexOf(old, connection) <= index
                                    THEN index - 1 ELSE index
                        /\ aliased' = (Len(deleted) # 0)
                   ELSE UNCHANGED <<connections, index, aliased>>
       ELSE UNCHANGED <<userConnections, connections, index, aliased>>
    /\ thrown' = FALSE

\* The record of a registry call: `present` is whether the connection was
\* registered under userId when the call was made.
Call(op, userId, connection) ==
    [op |-> op, userId |-> userId, connection |-> connection,
     present |-> Has(userId, connection)]

\* addConnection called from the event loop.
AddConnection ==
    \E userId \in Users, connection \in ClientConnection :
        /\ pc = "idle"
        /\ Has(userId, connection) \/ Registered < MaxRegistered
        /\ addConnection(userId, connection)
        /\ lastAdd' = lastAdd \cup {<<userId, connection>>}
        /\ lastCall' = Call("add", userId, connection)
        /\ UNCHANGED <<pc, params, wire, warned, given, entry, snapshot,
                       reentered, afterDup, built>>

\* removeConnection called from the event loop.
RemoveConnection ==
    \E userId \in Users, connection \in ClientConnection :
        /\ pc = "idle"
        /\ removeConnection(userId, connection)
        /\ lastAdd' = lastAdd \ {<<userId, connection>>}
        /\ lastCall' = Call("remove", userId, connection)
        /\ UNCHANGED <<pc, params, wire, warned, given, entry, snapshot,
                       reentered, afterDup, built>>

\* addConnection called from inside connection.socket.emit.
ReentrantAddConnection ==
    \E userId \in Users, connection \in ClientConnection :
        /\ pc = "send"
        /\ reentered < MaxReentrant
        /\ Has(userId, connection) \/ Registered < MaxRegistered
        /\ addConnection(userId, connection)
        /\ reentered' = reentered + 1
        /\ lastAdd' = lastAdd \cup {<<userId, connection>>}
        /\ UNCHANGED <<pc, params, wire, warned, given, entry, snapshot,
                       lastCall, afterDup, built>>

\* removeConnection called from inside connection.socket.emit.
ReentrantRemoveConnection ==
    \E userId \in Users, connection \in ClientConnection :
        /\ pc = "send"
        /\ reentered < MaxReentrant
        /\ removeConnection(userId, connection)
        /\ reentered' = reentered + 1
        /\ lastAdd' = lastAdd \ {<<userId, connection>>}
        /\ UNCHANGED <<pc, params, wire, warned, given, entry, snapshot,
                       lastCall, afterDup, built>>

\* ---------------------------------------------------------------- filter
\* Mutant: the sessionId of a session-scoped connection is not compared.
shouldSendAnySession(connection, filter) ==
    CASE filter.type = "all-interested-in-session" ->
            connectionType[connection] # "machine-scoped"
      [] filter.type = "user-scoped-only" ->
            connectionType[connection] = "user-scoped"
      [] filter.type = "all-user-authenticated-connections" -> TRUE
      [] OTHER -> FALSE

\* Mutant: user-scoped-only rejects session-scoped connections only.
shouldSendNotSession(connection, filter) ==
    CASE filter.type = "all-interested-in-session" ->
            IF connectionType[connection] = "session-scoped"
            THEN sessionId[connection] = filter.sessionId
            ELSE connectionType[connection] # "machine-scoped"
      [] filter.type = "user-scoped-only" ->
            connectionType[connection] # "session-scoped"
      [] filter.type = "all-user-authenticated-connections" -> TRUE
      [] OTHER -> FALSE

\* Mutant: the default branch of the switch returns true.
shouldSendFailOpen(connection, filter) ==
    CASE filter.type = "all-interested-in-session" ->
            IF connectionType[connection] = "session-scoped"
            THEN sessionId[connection] = filter.sessionId
            ELSE connectionType[connection] # "machine-scoped"
      [] filter.type = "user-scoped-only" ->
            connectionType[connection] = "user-scoped"
      [] filter.type = "all-user-authenticated-connections" -> TRUE
      [] OTHER -> TRUE

shouldSendToConnection(connection, filter) ==
    CASE filter.type = "all-interested-in-session" ->
            IF connectionType[connection] = "session-scoped"
            THEN sessionId[connection] = filter.sessionId
            ELSE connectionType[connection] # "machine-scoped"
      [] filter.type = "user-scoped-only" ->
            connectionType[connection] = "user-scoped"
      [] filter.type = "all-user-authenticated-connections" -> TRUE
      [] OTHER -> FALSE

\* ---------------------------------------------------------------- emission
\* Mutant: params.recipientFilter is passed on without the default.
OrDefaultMissing(recipientFilter) == recipientFilter

\* params.recipientFilter || { type: 'all-user-authenticated-connections' }
OrDefault(recipientFilter) ==
    IF recipientFilter = NoFilter THEN DefaultFilter ELSE recipientFilter

\* Mutant: no `if (!connections)` guard, so the loop iterates undefined.
emitUnguarded(p) ==
    /\ pc = "idle"
    /\ lastCall' = IF p.userId \in DOMAIN userConnections THEN NoCall
                   ELSE lastCall
    /\ afterDup' = (lastCall.op = "add" /\ lastCall.present
                        /\ lastCall.userId = p.userId)
    /\ UNCHANGED lastAdd
    /\ params' = p
    /\ index' = 0
    /\ wire' = <<>>
    /\ reentered' = 0
    /\ warned' = FALSE
    /\ IF p.userId \in DOMAIN userConnections
       THEN /\ connections' = userConnections[p.userId]
            /\ aliased' = TRUE
            /\ snapshot' = Elems(userConnections[p.userId])
            /\ thrown' = FALSE
            /\ pc' = "loop"
       ELSE /\ connections' = <<>>
            /\ aliased' = FALSE
            /\ snapshot' = {}
            /\ thrown' = TRUE
            /\ pc' = "done"
    /\ UNCHANGED userConnections

\* Mutant: a get-or-create lookup, which leaves an empty Set behind for a
\* user without connections.
emitCreatesEntry(p) ==
    /\ pc = "idle"
    /\ lastCall' = IF p.userId \in DOMAIN userConnections THEN NoCall
                   ELSE lastCall
    /\ afterDup' = (lastCall.op = "add" /\ lastCall.present
                        /\ lastCall.userId = p.userId)
    /\ UNCHANGED lastAdd
    /\ params' = p
    /\ index' = 0
    /\ wire' = <<>>
    /\ reentered' = 0
    /\ thrown' = FALSE
    /\ IF p.userId \in DOMAIN userConnections
       THEN /\ connections' = userConnections[p.userId]
            /\ aliased' = TRUE
            /\ snapshot' = Elems(userConnections[p.userId])
            /\ warned' = FALSE
            /\ pc' = "loop"
       ELSE /\ connections' = <<>>
            /\ aliased' = FALSE
            /\ snapshot' = {}
            /\ warned' = TRUE
            /\ pc' = "done"
    /\ userConnections' = IF p.userId \in DOMAIN userConnections
                           THEN userConnections
                           ELSE MapSet(userConnections, p.userId, <<>>)

\* Mutant: the Set is looked up under the first key of the Map, not under
\* params.userId.
emitFirstKey(p) ==
    /\ pc = "idle"
    /\ lastCall' = IF p.userId \in DOMAIN userConnections THEN NoCall
                   ELSE lastCall
    /\ afterDup' = (lastCall.op = "add" /\ lastCall.present
                        /\ lastCall.userId = p.userId)
    /\ UNCHANGED lastAdd
    /\ params' = p
    /\ index' = 0
    /\ wire' = <<>>
    /\ reentered' = 0
    /\ thrown' = FALSE
    /\ IF DOMAIN userConnections # {}
       THEN LET key == CHOOSE k \in DOMAIN userConnections : TRUE
            IN  /\ connections' = userConnections[key]
                /\ aliased' = (key = p.userId)
                /\ snapshot' = Elems(userConnections[key])
            /\ warned' = FALSE
            /\ pc' = "loop"
       ELSE /\ connections' = <<>>
            /\ aliased' = FALSE
            /\ snapshot' = {}
            /\ warned' = TRUE
            /\ pc' = "done"
    /\ UNCHANGED userConnections

\* emit(), up to the start of the for loop.
emit(p) ==
    /\ pc = "idle"
    /\ lastCall' = IF p.userId \in DOMAIN userConnections THEN NoCall
                   ELSE lastCall
    /\ afterDup' = (lastCall.op = "add" /\ lastCall.present
                        /\ lastCall.userId = p.userId)
    /\ UNCHANGED lastAdd
    /\ params' = p
    /\ index' = 0
    /\ wire' = <<>>
    /\ reentered' = 0
    /\ thrown' = FALSE
    /\ IF p.userId \in DOMAIN userConnections
       THEN /\ connections' = userConnections[p.userId]
            /\ aliased' = TRUE
            /\ snapshot' = Elems(userConnections[p.userId])
            /\ warned' = FALSE
            /\ pc' = "loop"
       ELSE /\ connections' = <<>>
            /\ aliased' = FALSE
            /\ snapshot' = {}
            /\ warned' = TRUE
            /\ pc' = "done"
    /\ UNCHANGED userConnections

EmitUpdate ==
    \E userId \in Users, payload \in UpdatePayload, recipientFilter \in FilterArgs,
       skipSenderConnection \in ClientConnection \cup {undefined} :
        /\ emit([userId |-> userId, eventName |-> "update", payload |-> payload,
                 recipientFilter |-> OrDefault(recipientFilter),
                 skipSenderConnection |-> skipSenderConnection])
        /\ given' = recipientFilter
        /\ entry' = "emitUpdate"
        /\ UNCHANGED built

\* Mutant: emitEphemeral tagged with emitUpdate's event name.
EmitEphemeralAsUpdate ==
    \E userId \in Users, payload \in EphemeralPayload, recipientFilter \in FilterArgs,
       skipSenderConnection \in ClientConnection \cup {undefined} :
        /\ emit([userId |-> userId, eventName |-> "update", payload |-> payload,
                 recipientFilter |-> OrDefault(recipientFilter),
                 skipSenderConnection |-> skipSenderConnection])
        /\ given' = recipientFilter
        /\ entry' = "emitEphemeral"
        /\ UNCHANGED built

EmitEphemeral ==
    \E userId \in Users, payload \in EphemeralPayload, recipientFilter \in FilterArgs,
       skipSenderConnection \in ClientConnection \cup {undefined} :
        /\ emit([userId |-> userId, eventName |-> "ephemeral", payload |-> payload,
                 recipientFilter |-> OrDefault(recipientFilter),
                 skipSenderConnection |-> skipSenderConnection])
        /\ given' = recipientFilter
        /\ entry' = "emitEphemeral"
        /\ UNCHANGED built

\* Mutant: the loop without the `connection === skipSenderConnection` test.
EmitNextEchoes ==
    /\ pc = "loop"
    /\ IF index >= Len(connections)
       THEN /\ pc' = "done"
            /\ UNCHANGED <<index, wire>>
       ELSE LET connection == connections[index + 1]
            IN  /\ index' = index + 1
                /\ IF ~shouldSendToConnection(connection, params.recipientFilter)
                   THEN UNCHANGED <<pc, wire>>
                   ELSE /\ wire' = Append(wire,
                                [connection |-> connection,
                                 eventName  |-> params.eventName,
                                 payload    |-> params.payload])
                        /\ pc' = "send"
    /\ UNCHANGED <<userConnections, params, connections, aliased, warned,
                   thrown, given, entry, snapshot, reentered, lastAdd, lastCall,
                   afterDup, built>>

\* Mutant: the router numbers the updates it writes.
EmitNextRestamps ==
    /\ pc = "loop"
    /\ IF index >= Len(connections)
       THEN /\ pc' = "done"
            /\ UNCHANGED <<index, wire>>
       ELSE LET connection == connections[index + 1]
            IN  /\ index' = index + 1
                /\ IF connection = params.skipSenderConnection
                   THEN UNCHANGED <<pc, wire>>
                   ELSE IF ~shouldSendToConnection(connection, params.recipientFilter)
                   THEN UNCHANGED <<pc, wire>>
                   ELSE /\ wire' = Append(wire,
                                [connection |-> connection,
                                 eventName  |-> params.eventName,
                                 payload    |->
                                     IF params.eventName = "update"
                                     THEN [params.payload EXCEPT
                                               !.seq = Len(wire) + 1]
                                     ELSE params.payload])
                        /\ pc' = "send"
    /\ UNCHANGED <<userConnections, params, connections, aliased, warned,
                   thrown, given, entry, snapshot, reentered, lastAdd, lastCall,
                   afterDup, built>>

\* One turn of `for (const connection of connections)`: the iterator yields
\* the next entry of the Set as it is now, or ends the loop.
EmitNext ==
    /\ pc = "loop"
    /\ IF index >= Len(connections)
       THEN /\ pc' = "done"
            /\ UNCHANGED <<index, wire>>
       ELSE LET connection == connections[index + 1]
            IN  /\ index' = index + 1
                /\ IF connection = params.skipSenderConnection
                   THEN UNCHANGED <<pc, wire>>
                   ELSE IF ~shouldSendToConnection(connection, params.recipientFilter)
                   THEN UNCHANGED <<pc, wire>>
                   ELSE /\ wire' = Append(wire,
                                [connection |-> connection,
                                 eventName  |-> params.eventName,
                                 payload    |-> params.payload])
                        /\ pc' = "send"
    /\ UNCHANGED <<userConnections, params, connections, aliased, warned,
                   thrown, given, entry, snapshot, reentered, lastAdd, lastCall,
                   afterDup, built>>

\* connection.socket.emit(...) returns to the loop.
SocketEmitReturn ==
    /\ pc = "send"
    /\ pc' = "loop"
    /\ UNCHANGED <<userConnections, params, connections, aliased, index, wire,
                   warned, thrown, given, entry, snapshot, reentered, lastAdd,
                   lastCall, afterDup, built>>

\* emit() returns to its caller.
EmitReturn ==
    /\ pc = "done"
    /\ pc' = "idle"
    /\ params' = NoParams
    /\ connections' = <<>>
    /\ aliased' = FALSE
    /\ index' = 0
    /\ wire' = <<>>
    /\ warned' = FALSE
    /\ given' = NoFilter
    /\ entry' = undefined
    /\ snapshot' = {}
    /\ reentered' = 0
    /\ afterDup' = FALSE
    /\ UNCHANGED <<userConnections, thrown, lastAdd, lastCall, built>>

\* ---------------------------------------------------------------- builders
\* An optional argument or property: <<>> is undefined, <<x>> is the value x.
Optional(S) == {<<>>} \cup {<<x>> : x \in S}

\* A Date is its epoch milliseconds; Date.prototype.getTime reads them.
Clock == {1000, 2000}

getTime(date) == date.ms

Seqs == 1..MaxSeq

UpdateIds == {"upd1", "upd2"}

EntityIds == {"e1", "e2"}

Date(t) == [ms |-> t]

\* { value: string; version: number }, when given.
Versioned(version) ==
    IF version = <<>> THEN <<>>
    ELSE <<[value |-> "v", version |-> version[1]]>>

buildNewSessionUpdate(session, updateSeq, updateId, now) ==
    [id        |-> updateId,
     seq       |-> updateSeq,
     body      |-> [t                 |-> "new-session",
                    id                |-> session.id,
                    seq               |-> session.seq,
                    metadata          |-> session.metadata,
                    metadataVersion   |-> session.metadataVersion,
                    agentState        |-> session.agentState,
                    agentStateVersion |-> session.agentStateVersion,
                    active            |-> session.active,
                    activeAt          |-> getTime(session.lastActiveAt),
                    createdAt         |-> getTime(session.createdAt),
                    updatedAt         |-> getTime(session.updatedAt)],
     createdAt |-> now]

\* Mutant: the envelope numbered with the message's own seq.
buildNewMessageUpdateEntitySeq(message, sid, updateSeq, updateId, now) ==
    [id        |-> updateId,
     seq       |-> message.seq,
     body      |-> [t       |-> "new-message",
                    sid     |-> sid,
                    message |-> [id        |-> message.id,
                                 seq       |-> message.seq,
                                 content   |-> message.content,
                                 localId   |-> message.localId,
                                 createdAt |-> getTime(message.createdAt),
                                 updatedAt |-> getTime(message.updatedAt)]],
     createdAt |-> now]

buildNewMessageUpdate(message, sid, updateSeq, updateId, now) ==
    [id        |-> updateId,
     seq       |-> updateSeq,
     body      |-> [t       |-> "new-message",
                    sid     |-> sid,
                    message |-> [id        |-> message.id,
                                 seq       |-> message.seq,
                                 content   |-> message.content,
                                 localId   |-> message.localId,
                                 createdAt |-> getTime(message.createdAt),
                                 updatedAt |-> getTime(message.updatedAt)]],
     createdAt |-> now]

buildUpdateSessionUpdate(sid, updateSeq, updateId, metadata, agentState, now) ==
    [id        |-> updateId,
     seq       |-> updateSeq,
     body      |-> [t          |-> "update-session",
                    id         |-> sid,
                    metadata   |-> metadata,
                    agentState |-> agentState],
     createdAt |-> now]

buildUpdateAccountUpdate(userId, settings, updateSeq, updateId, now) ==
    [id        |-> updateId,
     seq       |-> updateSeq,
     body      |-> [t        |-> "update-account",
                    id       |-> userId,
                    settings |-> settings],
     createdAt |-> now]

\* The function has five parameters: a further argument is not bound.
buildUpdateMachineUpdate(machineId, updateSeq, updateId, metadata, daemonState, now) ==
    [id        |-> updateId,
     seq       |-> updateSeq,
     body      |-> [t           |-> "update-machine",
                    machineId   |-> machineId,
                    metadata    |-> metadata,
                    daemonState |-> daemonState],
     createdAt |-> now]

\* Mutant: `thinking !== false`, which turns an omitted argument into true.
OrFalseUnlessFalse(thinking) == thinking # <<FALSE>>

\* `thinking || false` on an optional boolean.
OrFalse(thinking) == thinking = <<TRUE>>

buildSessionActivityEphemeral(sid, active, activeAt, thinking) ==
    [type     |-> "activity",
     id       |-> sid,
     active   |-> active,
     activeAt |-> activeAt,
     thinking |-> OrFalse(thinking)]

buildMachineActivityEphemeral(machineId, active, activeAt) ==
    [type     |-> "machine-activity",
     id       |-> machineId,
     active   |-> active,
     activeAt |-> activeAt]

buildUsageEphemeral(sid, key, tokens, cost, now) ==
    [type      |-> "usage",
     id        |-> sid,
     key       |-> key,
     tokens    |-> tokens,
     cost      |-> cost,
     timestamp |-> now]

buildMachineStatusEphemeral(machineId, online, now) ==
    [type      |-> "machine-status",
     machineId |-> machineId,
     online    |-> online,
     timestamp |-> now]

\* A call of a builder: what it was given and what it returned.
Build(builder, args, result) ==
    /\ built.builder = undefined
    /\ built' = [builder |-> builder, args |-> args, result |-> result]

BuildNewSessionUpdate ==
    \E id \in EntityIds, seq \in Seqs, metadataVersion \in Seqs,
       agentState \in {"agent", "null"}, active \in BOOLEAN,
       lastActiveAt \in Clock, updatedAt \in Clock,
       updateSeq \in Seqs, updateId \in UpdateIds, now \in Clock :
        LET session == [id |-> id, seq |-> seq, metadata |-> "meta",
                        metadataVersion |-> metadataVersion,
                        agentState |-> agentState, agentStateVersion |-> 1,
                        active |-> active,
                        lastActiveAt |-> Date(lastActiveAt),
                        createdAt |-> Date(1000),
                        updatedAt |-> Date(updatedAt)]
        IN  /\ Build("buildNewSessionUpdate",
                     [session |-> session, updateSeq |-> updateSeq,
                      updateId |-> updateId],
                     buildNewSessionUpdate(session, updateSeq, updateId, now))
            /\ UNCHANGED routerVars

BuildNewMessageUpdate ==
    \E id \in EntityIds, seq \in Seqs, localId \in {"local1", "null"},
       createdAt \in Clock, updatedAt \in Clock, sid \in SessionIds,
       updateSeq \in Seqs, updateId \in UpdateIds, now \in Clock :
        LET message == [id |-> id, seq |-> seq, content |-> "content",
                        localId |-> localId, createdAt |-> Date(createdAt),
                        updatedAt |-> Date(updatedAt)]
        IN  /\ Build("buildNewMessageUpdate",
                     [message |-> message, sessionId |-> sid,
                      updateSeq |-> updateSeq, updateId |-> updateId],
                     buildNewMessageUpdate(message, sid, updateSeq, updateId,
                                           now))
            /\ UNCHANGED routerVars

BuildUpdateSessionUpdate ==
    \E sid \in SessionIds, updateSeq \in Seqs, updateId \in UpdateIds,
       metadataVersion \in Optional(Seqs),
       agentStateVersion \in Optional(Seqs), now \in Clock :
        LET metadata == Versioned(metadataVersion)
            agentState == Versioned(agentStateVersion)
        IN  /\ Build("buildUpdateSessionUpdate",
                     [sessionId |-> sid, updateSeq |-> updateSeq,
                      updateId |-> updateId, metadata |-> metadata,
                      agentState |-> agentState],
                     buildUpdateSessionUpdate(sid, updateSeq, updateId, metadata,
                                              agentState, now))
            /\ UNCHANGED routerVars

BuildUpdateAccountUpdate ==
    \E userId \in Users, value \in {"v", "null"}, version \in Seqs,
       updateSeq \in Seqs, updateId \in UpdateIds, now \in Clock :
        LET settings == [value |-> value, version |-> version]
        IN  /\ Build("buildUpdateAccountUpdate",
                     [userId |-> userId, settings |-> settings,
                      updateSeq |-> updateSeq, updateId |-> updateId],
                     buildUpdateAccountUpdate(userId, settings, updateSeq,
                                              updateId, now))
            /\ UNCHANGED routerVars

\* The caller may hold an activity timestamp for the machine; the builder
\* has no parameter that takes it.
BuildUpdateMachineUpdate ==
    \E machineId \in EntityIds, updateSeq \in Seqs, updateId \in UpdateIds,
       metadataVersion \in Optional(Seqs),
       daemonStateVersion \in Optional(Seqs),
       activeAt \in Optional(Clock), now \in Clock :
        LET metadata == Versioned(metadataVersion)
            daemonState == Versioned(daemonStateVersion)
        IN  /\ Build("buildUpdateMachineUpdate",
                     [machineId |-> machineId, updateSeq |-> updateSeq,
                      updateId |-> updateId, metadata |-> metadata,
                      daemonState |-> daemonState, activeAt |-> activeAt],
                     buildUpdateMachineUpdate(machineId, updateSeq, updateId,
                                              metadata, daemonState, now))
            /\ UNCHANGED routerVars

BuildSessionActivityEphemeral ==
    \E sid \in SessionIds, active \in BOOLEAN, activeAt \in Clock,
       thinking \in Optional(BOOLEAN) :
        /\ Build("buildSessionActivityEphemeral",
                 [sessionId |-> sid, active |-> active, activeAt |-> activeAt,
                  thinking |-> thinking],
                 buildSessionActivityEphemeral(sid, active, activeAt, thinking))
        /\ UNCHANGED routerVars

BuildMachineActivityEphemeral ==
    \E machineId \in EntityIds, active \in BOOLEAN, activeAt \in Clock :
        /\ Build("buildMachineActivityEphemeral",
                 [machineId |-> machineId, active |-> active,
                  activeAt |-> activeAt],
                 buildMachineActivityEphemeral(machineId, active, activeAt))
        /\ UNCHANGED routerVars

BuildUsageEphemeral ==
    \E sid \in SessionIds, key \in {"k1", "k2"}, tokens \in 1..MaxSeq,
       now \in Clock :
        /\ Build("buildUsageEphemeral",
                 [sessionId |-> sid, key |-> key, tokens |-> [total |-> tokens],
                  cost |-> [total |-> 1]],
                 buildUsageEphemeral(sid, key, [total |-> tokens],
                                     [total |-> 1], now))
        /\ UNCHANGED routerVars

BuildMachineStatusEphemeral ==
    \E machineId \in EntityIds, online \in BOOLEAN, now \in Clock :
        /\ Build("buildMachineStatusEphemeral",
                 [machineId |-> machineId, online |-> online],
                 buildMachineStatusEphemeral(machineId, online, now))
        /\ UNCHANGED routerVars

\* The caller has taken the returned payload.
BuildReturn ==
    /\ built.builder # undefined
    /\ built' = [builder |-> undefined]
    /\ UNCHANGED routerVars

\* ---------------------------------------------------------------- spec
\* No builder has been called.
NoBuild == [builder |-> undefined]

Init ==
    /\ userConnections = [userId \in {} |-> <<>>]
    /\ pc = "idle"
    /\ params = NoParams
    /\ connections = <<>>
    /\ aliased = FALSE
    /\ index = 0
    /\ wire = <<>>
    /\ warned = FALSE
    /\ thrown = FALSE
    /\ given = NoFilter
    /\ entry = undefined
    /\ snapshot = {}
    /\ reentered = 0
    /\ lastAdd = {}
    /\ lastCall = NoCall
    /\ afterDup = FALSE
    /\ built = NoBuild

Next ==
    \/ AddConnection
    \/ RemoveConnection
    \/ EmitUpdate
    \/ EmitEphemeral
    \/ EmitNext
    \/ SocketEmitReturn
    \/ EmitReturn

Spec == Init /\ [][Next]_vars

NextReentrant ==
    \/ Next
    \/ ReentrantAddConnection
    \/ ReentrantRemoveConnection

SpecReentrant == Init /\ [][NextReentrant]_vars

\* The payload builders, called one after another on any inputs.
NextBuilders ==
    \/ BuildNewSessionUpdate
    \/ BuildNewMessageUpdate
    \/ BuildUpdateSessionUpdate
    \/ BuildUpdateAccountUpdate
    \/ BuildUpdateMachineUpdate
    \/ BuildSessionActivityEphemeral
    \/ BuildMachineActivityEphemeral
    \/ BuildUsageEphemeral
    \/ BuildMachineStatusEphemeral
    \/ BuildReturn

SpecBuilders == Init /\ [][NextBuilders]_vars

TypeOK ==
    /\ DOMAIN userConnections \subseteq Users
    /\ pc \in {"idle", "loop", "send", "done"}
    /\ index \in 0..Len(connections)

\* ---------------------------------------------------------------- observers
\* The connections the running emission has written to.
Written == {wire[i].connection : i \in 1..Len(wire)}

\* How many times the running emission has written to connection c.
Count(c) == Cardinality({i \in 1..Len(wire) : wire[i].connection = c})

\* The emission has ended and no registry call ran inside it.
Undisturbed == pc = "done" /\ reentered = 0

\* The elements of the iterated Set object when the loop has ended: the
\* connections that stayed registered to the end of the emission.
Remaining == Elems(connections)

\* ---------------------------------------------------------------- C1
\* C1: an emitUpdate given no recipientFilter writes to every connection
\* registered under the target user, of whatever scope, except
\* skipSenderConnection: when the emission ends every connection still in the
\* user's set other than skipSenderConnection has been written to, and an
\* emission not interleaved with registry calls has written to exactly the
\* connections registered when it began minus skipSenderConnection.
C1_DefaultFilterReachesAll ==
    (pc = "done" /\ params.eventName = "update" /\ given = NoFilter) =>
        /\ Remaining \ {params.skipSenderConnection} \subseteq Written
        /\ reentered = 0 =>
               Written = snapshot \ {params.skipSenderConnection}

C1_Witness ==
    /\ Undisturbed
    /\ params.eventName = "update"
    /\ given = NoFilter
    /\ snapshot = {"A", "C", "D"}
    /\ params.skipSenderConnection = "C"
    /\ Written = {"A", "D"}

\* ---------------------------------------------------------------- C2
\* The row of the filter table for all-interested-in-session{sid}.
InterestedInSession(c, sid) ==
    \/ connectionType[c] = "user-scoped"
    \/ connectionType[c] = "session-scoped" /\ sessionId[c] = sid

\* C2 as stated: under all-interested-in-session{sid} a connection of the
\* target user receives the payload if and only if it is user-scoped or
\* session-scoped with sessionId = sid.
C2_SessionFilterAsStated ==
    (Undisturbed /\ params.recipientFilter.type = "all-interested-in-session") =>
        \A c \in snapshot :
            c \in Written <=> InterestedInSession(c, params.recipientFilter.sessionId)

\* C2 amended: under all-interested-in-session{sid} no machine-scoped
\* connection and no session-scoped connection of another session is ever
\* written to, and a connection of the target user other than
\* skipSenderConnection receives the payload if and only if it is user-scoped
\* or session-scoped with sessionId = sid; with A(s1), B(s2), C(user-scoped),
\* sid = s1 and no skipSenderConnection exactly A and C receive.
C2_SessionFilter ==
    (params.recipientFilter.type = "all-interested-in-session") =>
        LET sid == params.recipientFilter.sessionId
            skip == params.skipSenderConnection
        IN  /\ \A c \in Written : InterestedInSession(c, sid) /\ c # skip
            /\ pc = "done" =>
                   \A c \in Remaining \ {skip} :
                       InterestedInSession(c, sid) => c \in Written
            /\ Undisturbed =>
                   \A c \in snapshot \ {skip} :
                       c \in Written <=> InterestedInSession(c, sid)
            /\ (Undisturbed /\ snapshot = {"A", "B", "C"} /\ sid = "s1"
                    /\ skip = undefined) => Written = {"A", "C"}

C2_Witness ==
    /\ Undisturbed
    /\ params.recipientFilter = [type |-> "all-interested-in-session", sessionId |-> "s1"]
    /\ snapshot = {"A", "B", "C"}
    /\ params.skipSenderConnection = undefined
    /\ Written = {"A", "C"}

\* ---------------------------------------------------------------- C3
\* C3: under user-scoped-only only user-scoped connections are ever written
\* to, never skipSenderConnection, and the recipients are exactly the
\* user-scoped connections registered under the target user minus
\* skipSenderConnection.
C3_UserScopedOnly ==
    (params.recipientFilter.type = "user-scoped-only") =>
        LET skip == params.skipSenderConnection
            UserScoped(S) == {c \in S : connectionType[c] = "user-scoped"}
        IN  /\ Written \subseteq UserScoped(ClientConnection) \ {skip}
            /\ pc = "done" => UserScoped(Remaining) \ {skip} \subseteq Written
            /\ Undisturbed => Written = UserScoped(snapshot) \ {skip}

C3_Witness ==
    /\ Undisturbed
    /\ params.recipientFilter.type = "user-scoped-only"
    /\ snapshot = {"A", "C", "D"}
    /\ params.skipSenderConnection = "A"
    /\ Written = {"C"}

\* ---------------------------------------------------------------- C4
\* C4: a connection is written to by an emission to U only while its most
\* recent addConnection/removeConnection call under U is an addConnection,
\* so after removeConnection(U, C) and until C is added again no emission to
\* U reaches C; and while no connection of U has an addConnection as its most
\* recent call (the last one was removed), getConnections(U) is undefined.
C4_RemovedIsNeverReached ==
    /\ [][\A i \in (DOMAIN wire') \ (DOMAIN wire) :
              <<params'.userId, wire'[i].connection>> \in lastAdd]_vars
    /\ [](\A userId \in Users :
              (\A c \in ClientConnection : <<userId, c>> \notin lastAdd)
                  => getConnections(userId) = NoConnections)

C4_Witness ==
    /\ lastCall = [op |-> "remove", userId |-> "u1", connection |-> "A",
                   present |-> TRUE]
    /\ pc = "done"
    /\ params.userId = "u1"
    /\ "A" \notin Written
    /\ getConnections("u1") = NoConnections
    /\ "u2" \in DOMAIN userConnections

\* ---------------------------------------------------------------- C5
\* C5: an addConnection of a connection already registered under the user
\* leaves the registry as it is, and an emission not interleaved with
\* registry calls writes exactly once to every connection registered under
\* the target user that passes the filter and is not skipSenderConnection,
\* and never to the others.
C5_AddIsIdempotent ==
    /\ [][\A userId \in Users, connection \in ClientConnection :
              (Has(userId, connection) /\ addConnection(userId, connection))
                  => userConnections' = userConnections]_vars
    /\ [](Undisturbed =>
              \A c \in snapshot :
                  Count(c) =
                      IF c # params.skipSenderConnection
                         /\ shouldSendToConnection(c, params.recipientFilter)
                      THEN 1 ELSE 0)

C5_Witness ==
    /\ Undisturbed
    /\ afterDup
    /\ snapshot = {"A"}
    /\ userConnections[params.userId] = <<"A">>
    /\ Count("A") = 1

\* ---------------------------------------------------------------- C6
\* C6: no userId key of the registry maps to an empty set.
C6_NoEmptySets ==
    \A userId \in DOMAIN userConnections : userConnections[userId] # <<>>

C6_Witness ==
    /\ lastCall.op = "remove"
    /\ lastCall.present
    /\ lastCall.userId \notin DOMAIN userConnections
    /\ DOMAIN userConnections # {}

\* ---------------------------------------------------------------- C7
\* C7: the connections an emission writes to are determined by the registry
\* state at the moment the emission started: whatever addConnection or
\* removeConnection calls run during the emission, it writes only to
\* connections of the set as it was then (a connection added mid-emission is
\* not written to), and when it ends it has written to all of them that pass
\* the filter and are not skipSenderConnection.
C7_SnapshotIteration ==
    LET determined == {c \in snapshot :
                           /\ c # params.skipSenderConnection
                           /\ shouldSendToConnection(c, params.recipientFilter)}
    IN  /\ Written \subseteq determined
        /\ pc = "done" => Written = determined

\* ---------------------------------------------------------------- C8
\* C8: an emission whose recipientFilter is none of the three variants writes
\* to no connection and raises no error.
C8_UnrecognizedFilterFailsClosed ==
    (pc # "idle" /\ given = UnrecognizedFilter) => (wire = <<>> /\ ~thrown)

C8_Witness ==
    /\ pc = "done"
    /\ given = UnrecognizedFilter
    /\ snapshot = {"A", "C", "D"}
    /\ params.skipSenderConnection = undefined
    /\ wire = <<>>
    /\ ~thrown

\* ---------------------------------------------------------------- C9
\* C9: an emitUpdate or emitEphemeral to a user none of whose connections is
\* registered returns at once without writing to any channel, without raising
\* and with the registry unchanged.
C9_NoConnectionsNoDelivery ==
    [][(pc = "idle" /\ pc' # "idle"
            /\ \A c \in ClientConnection : <<params'.userId, c>> \notin lastAdd)
           => /\ pc' = "done"
              /\ wire' = <<>>
              /\ thrown' = FALSE
              /\ userConnections' = userConnections]_vars

C9_Witness ==
    /\ pc = "done"
    /\ warned
    /\ lastCall.op = "remove"
    /\ lastCall.present
    /\ lastCall.userId = params.userId
    /\ params.eventName = "ephemeral"
    /\ params.userId \notin DOMAIN userConnections
    /\ DOMAIN userConnections # {}
    /\ wire = <<>>
    /\ ~thrown

\* ---------------------------------------------------------------- C10
\* C10: removeConnection(U, C) when U has no registry entry or C is not in
\* U's set raises no error and leaves the whole registry unchanged.
C10_RemoveAbsentIsNoOp ==
    [][\A userId \in Users, connection \in ClientConnection :
           (~Has(userId, connection) /\ removeConnection(userId, connection))
               => (userConnections' = userConnections /\ thrown' = FALSE)]_vars

C10_Witness ==
    /\ lastCall.op = "remove"
    /\ ~lastCall.present
    /\ lastCall.userId \notin DOMAIN userConnections
    /\ DOMAIN userConnections # {}
    /\ ~thrown

\* ---------------------------------------------------------------- C11
\* The filter table: whether a filter accepts a connection.
FilterAccepts(c, filter) ==
    \/ filter.type = "all-user-authenticated-connections"
    \/ filter.type = "user-scoped-only" /\ connectionType[c] = "user-scoped"
    \/ filter.type = "all-interested-in-session"
           /\ InterestedInSession(c, filter.sessionId)

\* C11: under every recipient filter skipSenderConnection is never written
\* to, only connections the filter accepts are written to, and the recipients
\* of an emission are exactly the filter-accepted connections of the target
\* user other than skipSenderConnection.
C11_SenderEchoSuppressed ==
    LET skip == params.skipSenderConnection
        accepted(S) == {c \in S : FilterAccepts(c, params.recipientFilter)}
    IN  /\ skip \notin Written
        /\ Written \subseteq accepted(ClientConnection)
        /\ pc = "done" => accepted(Remaining) \ {skip} \subseteq Written
        /\ Undisturbed => Written = accepted(snapshot) \ {skip}

C11_Witness ==
    /\ Undisturbed
    /\ params.recipientFilter = [type |-> "all-interested-in-session", sessionId |-> "s1"]
    /\ snapshot = {"A", "B", "C"}
    /\ params.skipSenderConnection = "C"
    /\ Written = {"A"}

\* ---------------------------------------------------------------- C12
\* C12: getConnections(U) is exactly the set of the connections whose most
\* recent addConnection/removeConnection call under U was an addConnection,
\* and undefined when there is none; the calls made under another userId do
\* not change it.
C12_GetConnectionsIsLastAdded ==
    /\ [](\A userId \in Users :
              LET added == {c \in ClientConnection : <<userId, c>> \in lastAdd}
              IN  getConnections(userId) =
                      IF added = {} THEN NoConnections
                      ELSE [defined |-> TRUE, elements |-> added])
    /\ [][\A userId \in Users :
              (\A c \in ClientConnection :
                   <<userId, c>> \in lastAdd <=> <<userId, c>> \in lastAdd')
                  => getConnections(userId)' = getConnections(userId)]_vars

C12_Witness ==
    /\ lastCall = [op |-> "remove", userId |-> "u1", connection |-> "A",
                   present |-> TRUE]
    /\ getConnections("u1") = [defined |-> TRUE, elements |-> {"B"}]
    /\ getConnections("u2") = [defined |-> TRUE, elements |-> {"A"}]

\* ---------------------------------------------------------------- C13
\* C13: one emission writes to any given connection at most once, also when
\* that connection is removed and added again while the emission is in
\* progress.
C13_AtMostOncePerEmission ==
    \A c \in ClientConnection : Count(c) <= 1

\* ---------------------------------------------------------------- C14
\* C14: a step of emitUpdate/emitEphemeral leaves the registry as it is; the
\* only steps that change userConnections are addConnection and
\* removeConnection calls.
C14_EmissionLeavesRegistry ==
    [][((pc # "idle" \/ pc' # "idle") /\ reentered' # reentered + 1)
           => userConnections' = userConnections]_vars

C14_Witness ==
    /\ Undisturbed
    /\ Len(wire) = 3
    /\ lastAdd = {<<"u1", "A">>, <<"u1", "C">>, <<"u1", "D">>}
    /\ userConnections = [userId \in {"u1"} |-> <<"A", "C", "D">>]

\* ---------------------------------------------------------------- C15
\* C15: emitUpdate and emitEphemeral dispatch alike: for the same registry
\* state, user, filter argument and skipSenderConnection either one writes to
\* the same connections; every write of emitUpdate is tagged 'update' and
\* every write of emitEphemeral is tagged 'ephemeral'.
C15_SameDispatchTwoTags ==
    LET tag == IF entry = "emitUpdate" THEN "update" ELSE "ephemeral"
    IN  /\ pc # "idle" => entry \in {"emitUpdate", "emitEphemeral"}
        /\ \A i \in 1..Len(wire) : wire[i].eventName = tag
        /\ Undisturbed =>
               Written = {c \in snapshot :
                             /\ c # params.skipSenderConnection
                             /\ shouldSendToConnection(c, OrDefault(given))}

C15_Witness ==
    /\ Undisturbed
    /\ entry = "emitEphemeral"
    /\ given = [type |-> "all-interested-in-session", sessionId |-> "s1"]
    /\ snapshot = {"A", "B", "C"}
    /\ params.skipSenderConnection = undefined
    /\ {wire[i].eventName : i \in 1..Len(wire)} = {"ephemeral"}
    /\ Written = {"A", "C"}

\* ---------------------------------------------------------------- C16
\* C16: the value written to each recipient is the payload the caller passed,
\* the same for every recipient; the router neither produces nor alters its
\* id or seq.
C16_PayloadPassedThrough ==
    /\ pc # "idle" =>
           params.payload \in
               IF entry = "emitUpdate" THEN UpdatePayload ELSE EphemeralPayload
    /\ \A i \in 1..Len(wire) : wire[i].payload = params.payload
    /\ \A i, j \in 1..Len(wire) : wire[i].payload = wire[j].payload

C16_Witness ==
    /\ pc = "done"
    /\ entry = "emitUpdate"
    /\ Len(wire) = 3
    /\ \A i \in 1..3 : wire[i].payload.id = "upd1" /\ wire[i].payload.seq = 7

\* ---------------------------------------------------------------- C17
\* C17: an emission to user U writes only to connections that are registered
\* under key U at the time of the write, whatever other users they are
\* registered under and whatever the filter accepts.
C17_CrossUserIsolation ==
    [][\A i \in (Len(wire) + 1)..Len(wire') :
           Has(params.userId, wire'[i].connection)]_vars

C17_Witness ==
    /\ Undisturbed
    /\ params.userId = "u1"
    /\ given = NoFilter
    /\ Has("u2", "A")
    /\ ~Has("u1", "A")
    /\ Written = {"C"}

\* ---------------------------------------------------------------- C18
UpdateBuilders ==
    {"buildNewSessionUpdate", "buildNewMessageUpdate",
     "buildUpdateSessionUpdate", "buildUpdateAccountUpdate",
     "buildUpdateMachineUpdate"}

\* C18: each of the five persistent-update builders returns an envelope whose
\* id is the updateId and whose seq is the updateSeq it was given, whatever the
\* entity's own id and seq are; the entity's own seq appears in the body only.
C18_EnvelopeIdAndSeq ==
    built.builder \in UpdateBuilders =>
        /\ built.result.id = built.args.updateId
        /\ built.result.seq = built.args.updateSeq
        /\ built.builder = "buildNewSessionUpdate" =>
               /\ built.result.body.id = built.args.session.id
               /\ built.result.body.seq = built.args.session.seq
        /\ built.builder = "buildNewMessageUpdate" =>
               /\ built.result.body.message.id = built.args.message.id
               /\ built.result.body.message.seq = built.args.message.seq

C18_Witness ==
    /\ built.builder = "buildNewMessageUpdate"
    /\ built.args.message.seq = 2
    /\ built.args.updateSeq = 1
    /\ built.result.seq = 1
    /\ built.result.id = "upd2"
    /\ built.result.body.message.seq = 2

\* ---------------------------------------------------------------- C19
\* The body carries the property: it is there and its value is not undefined.
Carries(body, property) ==
    /\ property \in DOMAIN body
    /\ body[property] # <<>>

\* C19: the update-machine builder returns a body tagged 'update-machine'
\* with the machine id, in which metadata, daemonState and the activity
\* timestamp each appear when the caller supplies them and are omitted
\* otherwise.
C19_UpdateMachineOptionalFields ==
    built.builder = "buildUpdateMachineUpdate" =>
        LET body == built.result.body
        IN  /\ body.t = "update-machine"
            /\ body.machineId = built.args.machineId
            /\ Carries(body, "metadata") <=> built.args.metadata # <<>>
            /\ Carries(body, "daemonState") <=> built.args.daemonState # <<>>
            /\ Carries(body, "activeAt") <=> built.args.activeAt # <<>>

\* ---------------------------------------------------------------- C20
\* C20: the session-activity builder returns type 'activity' with a boolean
\* thinking, which is true only when the caller passed true and false when
\* the caller passed false or nothing; id, active and activeAt are the
\* arguments unchanged.
C20_ThinkingDefaultsToFalse ==
    built.builder = "buildSessionActivityEphemeral" =>
        /\ built.result.type = "activity"
        /\ built.result.thinking \in BOOLEAN
        /\ built.result.thinking <=> built.args.thinking = <<TRUE>>
        /\ built.args.thinking \in {<<>>, <<FALSE>>} => ~built.result.thinking
        /\ built.result.id = built.args.sessionId
        /\ built.result.active = built.args.active
        /\ built.result.activeAt = built.args.activeAt

C20_Witness ==
    /\ built.builder = "buildSessionActivityEphemeral"
    /\ built.args.thinking = <<>>
    /\ built.args.active
    /\ built.result = [type |-> "activity", id |-> "s2", active |-> TRUE,
                       activeAt |-> 2000, thinking |-> FALSE]
====
